---------------------------- MODULE Spec2Model ----------------------------
(***************************************************************************)
(* A model of the chunking engine of the RAG pipeline                      *)
(* (src/chunk_strategies): the fixed character window, the recursive       *)
(* separator cascade, the token window with its tokenizer handle, the      *)
(* semantic chunker, the unified dispatcher and the batch preparation that *)
(* attaches metadata and ids; and of the batched insertion into the        *)
(* collection (src/chroma_manager.py).                                     *)
(*                                                                         *)
(* A text is a sequence of one-character strings.  One behaviour of the    *)
(* model is one call of one entry point (variable call); loops that the    *)
(* code may never leave are modelled one iteration per step, functions     *)
(* that always return are operators.                                       *)
(***************************************************************************)
EXTENDS Integers, Sequences, FiniteSets, TLC

\* ------------------------------------------------------------------ bounds
MaxLen == 5        \* longest text handed to a chunker directly
MaxSize == 4       \* largest chunk_size / overlap argument
MaxDocs == 2       \* documents in a batch
MaxDocLen == 2     \* longest document content in a batch
MaxTokens == 3     \* longest token-id sequence the tokenizer returns
MaxSentences == 3  \* most sentences in a document made of whole sentences
WideSize == 11     \* chunk_size of the wide fixed window
MaxCalls == 4      \* calls of get_tokenizer in one process
MaxItems == 5      \* most items handed to insert_documents
MaxBatch == 3      \* largest batch_size of insert_documents
MaxChars == 210    \* largest chunk_size and overlap, in characters, turned into tokens

\* The characters texts are made of: a letter, the space, full stop, newline.
\* The window loops look at whitespace only, documents are short.
Alphabet == {"a", " ", ".", "\n"}
WindowAlphabet == {"a", " ", "\n"}
DocAlphabet == {"a", " "}

\* Token ids: 0 is a special token that decodes to nothing, 1 a word,
\* 2 an id the tokenizer's decode rejects.
TokenIds == {0, 1, 2}

\* Iterations after which a loop that has not ended is no longer followed.
IterCap == MaxLen + MaxSize + 2

SeqsUpTo(S, n) == UNION {[1..k -> S] : k \in 0..n}
Texts == SeqsUpTo(Alphabet, MaxLen)
WindowTexts == SeqsUpTo(WindowAlphabet, MaxLen)
DocTexts == SeqsUpTo(DocAlphabet, MaxDocLen)
TokenSeqs == SeqsUpTo(TokenIds, MaxTokens)

\* The token window works on the token ids; the text itself only matters when
\* encoding fails, and is kept to at most one character there.
TokenTexts == {t \in DocTexts : Len(t) <= 1}

\* Texts for the semantic chunker: an upper-case letter, full stop and space,
\* as short texts of any shape and as documents of whole sentences "A. A. A."
SemanticAlphabet == {"A", ".", " "}

RECURSIVE SentenceDoc(_)
SentenceDoc(k) ==
    IF k = 0 THEN <<>>
    ELSE IF k = 1 THEN <<"A", ".">>
    ELSE SentenceDoc(k - 1) \o <<" ", "A", ".">>

SentenceDocs == {SentenceDoc(k) : k \in 0..MaxSentences}
SemanticTexts == SeqsUpTo(SemanticAlphabet, MaxLen) \cup SentenceDocs

\* Cosine distances 1 - similarity of consecutive sentences, on an integer
\* scale: near, far, and the slightly negative value rounding can produce.
DistanceValues == {-1, 1, 4}

\* Sentences handed to _split_large_chunk, where only their length matters.
SentenceTexts == {[i \in 1..k |-> "A"] : k \in 0..MaxLen}
SentenceLists == SeqsUpTo(SentenceTexts, MaxSentences)

\* Texts one character longer than the wide window, which runs with an
\* overlap two short of its size.
WideTexts == [1..(WideSize + 1) -> DocAlphabet]

\* Valid settings of config.CHUNK_SIZE, config.CHUNK_OVERLAP.
Configs == {c \in (1..MaxSize) \X (0..MaxSize) : c[2] < c[1]}

Min(a, b) == IF a < b THEN a ELSE b
Max(a, b) == IF a > b THEN a ELSE b

\* --------------------------------------------------- Python str primitives
\* str.isspace() of one character.
IsSpace(c) == c \in {" ", "\n"}

\* A slice bound as Python normalises it: negative counts from the end,
\* then clamped to [0, len].
SliceBound(n, i) == IF i < 0 THEN Max(n + i, 0) ELSE Min(i, n)

\* s[i:j]
PySlice(s, i, j) ==
    LET lo == SliceBound(Len(s), i)
        hi == SliceBound(Len(s), j)
    IN  IF hi <= lo THEN <<>> ELSE SubSeq(s, lo + 1, hi)

\* s[i] raises IndexError outside -len(s) .. len(s)-1.
PyIndexOk(s, i) == -Len(s) <= i /\ i < Len(s)
PyIndex(s, i) == IF i < 0 THEN s[Len(s) + i + 1] ELSE s[i + 1]

\* s[-n:] for n > 0
PyTail(s, n) == PySlice(s, -n, Len(s))

\* s.rfind(' '): 0-based index of the last space, -1 when there is none.
RfindSpace(s) ==
    LET hits == {i \in 1..Len(s) : s[i] = " "}
    IN  IF hits = {} THEN -1
        ELSE (CHOOSE i \in hits : \A j \in hits : j <= i) - 1

RECURSIVE LStrip(_)
LStrip(s) == IF s # <<>> /\ IsSpace(Head(s)) THEN LStrip(Tail(s)) ELSE s

RECURSIVE RStrip(_)
RStrip(s) ==
    IF s # <<>> /\ IsSpace(s[Len(s)]) THEN RStrip(SubSeq(s, 1, Len(s) - 1))
    ELSE s

\* s.strip()
Strip(s) == RStrip(LStrip(s))

\* -------------------------------------------------------- config.py values
\* MIN_CHUNK_RATIO = 0.7, kept exact as 7/10.  (The float product
\* chunk_size * 0.7 differs from the exact one only from chunk_size = 90 on.)
MIN_CHUNK_RATIO_NUM == 7
MIN_CHUNK_RATIO_DEN == 10

\* SEMANTIC_THRESHOLD = 0.5, as 1/2; thresholds are counted in halves.
SEMANTIC_THRESHOLD_NUM == 1
SEMANTIC_THRESHOLD_DEN == 2
Thresholds == 0..SEMANTIC_THRESHOLD_DEN

\* BATCH_SIZE = 100
BATCH_SIZE == 100

VARIABLES
    call,           \* entry point of this behaviour
    pc,             \* position in the running code
    text,           \* the text argument
    asked,          \* chunk_size and overlap as the caller passed them
    method,         \* the dispatcher's method argument
    capability,     \* the tokenizer or embedder: "no_module", "load_fails",
                    \* "encode_fails" (embedder only) or "ready"
    threshold,      \* chunk_text_semantic: threshold, in halves
    chunk_size,     \* local: chunk_size / chunk_size_tokens of the running loop
    overlap,        \* local: overlap / overlap_tokens of the running loop
    tokens,         \* local: the token ids of text
    start,          \* local: window start
    chunks,         \* local: chunks collected so far
    iters,          \* iterations of the window loop taken so far
    visited,        \* window starts the loop has already processed
    sentences,      \* chunk_text_semantic: the sentences of text
    distances,      \* chunk_text_semantic: distances of consecutive sentences
    breakpoints,    \* chunk_text_semantic: the breakpoint list
    documents,      \* prepare_chunks_for_db: the batch
    doc_i,          \* prepare_chunks_for_db: documents already processed
    all_texts,      \* prepare_chunks_for_db: texts emitted so far
    all_metadatas,  \* prepare_chunks_for_db: metadata emitted so far
    all_ids,        \* prepare_chunks_for_db: ids emitted so far
    chunk_id,       \* prepare_chunks_for_db: the id counter
    tokenizer,      \* chunk_token._tokenizer: 0 is None, else the handle loaded
    loads,          \* loads of the tokenizer that succeeded so far
    attempts,       \* loads of the tokenizer attempted so far
    history,        \* get_tokenizer: caller and outcome of every call so far
    batch_size,     \* insert_documents: the batch_size argument
    insert_i,       \* insert_documents: i of the loop over the batches
    added,          \* the calls of collection.add so far
    result,         \* value returned (pc = "done")
    exc             \* exception that left the call (pc = "raised")

args == <<call, text, asked, method, capability, threshold, documents>>
loop == <<start, chunks, iters, visited>>
sem == <<sentences, distances, breakpoints>>
batch == <<doc_i, all_texts, all_metadatas, all_ids, chunk_id>>
process == <<tokenizer, loads, attempts, history>>
store == <<batch_size, insert_i, added>>
vars == <<args, pc, chunk_size, overlap, tokens, loop, sem, batch, process,
          store, result, exc>>

\* ------------------------------------------------ chunk_fixed.chunk_text
\* FixedIter with a window one character too wide (text[start:end + 1]).
FixedIterWide(t, size, ov, st) ==
    LET end0 == st + size
        chunk0 == PySlice(t, st, end0 + 1)
        probe == end0 < Len(t)
    IN  IF probe /\ ~PyIndexOk(t, end0)
        THEN [raises |-> TRUE, chunk |-> <<>>, end |-> end0, retracted |-> FALSE]
        ELSE IF probe /\ ~IsSpace(PyIndex(t, end0))
                /\ MIN_CHUNK_RATIO_DEN * RfindSpace(chunk0)
                      > MIN_CHUNK_RATIO_NUM * size
        THEN [raises |-> FALSE,
              chunk |-> PySlice(t, st, st + RfindSpace(chunk0)),
              end |-> st + RfindSpace(chunk0), retracted |-> TRUE]
        ELSE [raises |-> FALSE, chunk |-> chunk0, end |-> end0,
              retracted |-> FALSE]

\* FixedIter retracting to the last space wherever it lies in the window.
FixedIterAnySpace(t, size, ov, st) ==
    LET end0 == st + size
        chunk0 == PySlice(t, st, end0)
        probe == end0 < Len(t)
    IN  IF probe /\ ~PyIndexOk(t, end0)
        THEN [raises |-> TRUE, chunk |-> <<>>, end |-> end0, retracted |-> FALSE]
        ELSE IF probe /\ ~IsSpace(PyIndex(t, end0)) /\ RfindSpace(chunk0) > 0
        THEN [raises |-> FALSE,
              chunk |-> PySlice(t, st, st + RfindSpace(chunk0)),
              end |-> st + RfindSpace(chunk0), retracted |-> TRUE]
        ELSE [raises |-> FALSE, chunk |-> chunk0, end |-> end0,
              retracted |-> FALSE]

\* One iteration of the while loop: the window, the retraction to the last
\* space, and the end the next start is computed from.
FixedIter(t, size, ov, st) ==
    LET end0 == st + size
        chunk0 == PySlice(t, st, end0)
        probe == end0 < Len(t)
    IN  IF probe /\ ~PyIndexOk(t, end0)
        THEN [raises |-> TRUE, chunk |-> <<>>, end |-> end0, retracted |-> FALSE]
        ELSE IF probe /\ ~IsSpace(PyIndex(t, end0))
                /\ MIN_CHUNK_RATIO_DEN * RfindSpace(chunk0)
                      > MIN_CHUNK_RATIO_NUM * size
        THEN [raises |-> FALSE,
              chunk |-> PySlice(t, st, st + RfindSpace(chunk0)),
              end |-> st + RfindSpace(chunk0), retracted |-> TRUE]
        ELSE [raises |-> FALSE, chunk |-> chunk0, end |-> end0,
              retracted |-> FALSE]

\* The loop body while start < text_length.
FixedLoop ==
    /\ pc = "fixed_loop"
    /\ start < Len(text)
    /\ iters < IterCap
    /\ LET it == FixedIter(text, chunk_size, overlap, start)
       IN  IF it.raises
           THEN /\ pc' = "raised"
                /\ exc' = "IndexError"
                /\ UNCHANGED <<start, chunks>>
           ELSE /\ chunks' = Append(chunks, Strip(it.chunk))
                /\ start' = it.end - overlap
                /\ UNCHANGED <<pc, exc>>
    /\ iters' = iters + 1
    /\ visited' = visited \cup {start}
    /\ UNCHANGED <<args, process, store,
                   sem, chunk_size, overlap, tokens, batch, result>>

\* Loop exit and return chunks.
FixedReturn ==
    /\ pc = "fixed_loop"
    /\ start >= Len(text)
    /\ pc' = "done"
    /\ result' = chunks
    /\ UNCHANGED <<args, process, store,
                   sem, chunk_size, overlap, tokens, loop, batch, exc>>

\* chunk_text as a function of its arguments: how the call ends and what it
\* returns.  The next start depends on the current start alone, so a start
\* seen before means the loop never ends.
RECURSIVE FixedFrom(_, _, _, _, _, _)
FixedFrom(t, size, ov, st, seen, acc) ==
    IF st >= Len(t) THEN [status |-> "returns", chunks |-> acc]
    ELSE IF st \in seen THEN [status |-> "diverges", chunks |-> <<>>]
    ELSE LET it == FixedIter(t, size, ov, st)
         IN  IF it.raises THEN [status |-> "raises", chunks |-> <<>>]
             ELSE FixedFrom(t, size, ov, it.end - ov, seen \cup {st},
                            Append(acc, Strip(it.chunk)))

FixedChunkText(t, size, ov) == FixedFrom(t, size, ov, 0, {}, <<>>)

\* ------------------------------------------- chunk_recursive._chunk_by_size
NonEmpty(c) == c # <<>>

\* One iteration of the while loop: the chunk appended and the next start.
BySizeIter(t, size, ov, st) ==
    [chunk |-> Strip(PySlice(t, st, st + size)), next |-> (st + size) - ov]

BySizeLoop ==
    /\ pc = "by_size_loop"
    /\ start < Len(text)
    /\ iters < IterCap
    /\ LET it == BySizeIter(text, chunk_size, overlap, start)
       IN  /\ chunks' = Append(chunks, it.chunk)
           /\ start' = it.next
    /\ iters' = iters + 1
    /\ visited' = visited \cup {start}
    /\ UNCHANGED <<args, process, store,
                   sem, pc, chunk_size, overlap, tokens, batch, result, exc>>

\* return [c for c in chunks if c]
BySizeReturn ==
    /\ pc = "by_size_loop"
    /\ start >= Len(text)
    /\ pc' = "done"
    /\ result' = SelectSeq(chunks, NonEmpty)
    /\ UNCHANGED <<args, process, store,
                   sem, chunk_size, overlap, tokens, loop, batch, exc>>

\* _chunk_by_size as a function.  With overlap >= chunk_size the start never
\* grows (start' = start + chunk_size - overlap), so on a non-empty text the
\* loop never ends.
RECURSIVE BySizeFrom(_, _, _, _, _)
BySizeFrom(t, size, ov, st, acc) ==
    IF st >= Len(t) THEN acc
    ELSE LET it == BySizeIter(t, size, ov, st)
         IN  BySizeFrom(t, size, ov, it.next, Append(acc, it.chunk))

\* ChunkBySize for a loop that steps one character short
\* (start = end - overlap - 1).
ChunkBySizeShortStep(t, size, ov) ==
    IF Len(t) > 0 /\ ov + 1 >= size THEN [status |-> "diverges", chunks |-> <<>>]
    ELSE [status |-> "returns", chunks |-> <<>>]

ChunkBySize(t, size, ov) ==
    IF Len(t) > 0 /\ ov >= size THEN [status |-> "diverges", chunks |-> <<>>]
    ELSE [status |-> "returns",
          chunks |-> SelectSeq(BySizeFrom(t, size, ov, 0, <<>>), NonEmpty)]

\* ------------------------------------ chunk_recursive._split_text_recursive
\* The separators of chunk_text_recursive, most structured first.
Separators ==
    << <<"\n", "\n">>, <<"\n">>, <<".", " ">>, <<"!", " ">>, <<"?", " ">>,
       <<";", " ">>, <<",", " ">>, <<" ">>, <<>> >>

\* 1-based position of the first occurrence of sep in s, 0 when absent.
Find(s, sep) ==
    LET hits == {i \in 1..(Len(s) - Len(sep) + 1) :
                    SubSeq(s, i, i + Len(sep) - 1) = sep}
    IN  IF hits = {} THEN 0 ELSE CHOOSE i \in hits : \A j \in hits : i <= j

\* separator in text
Contains(s, sep) == Find(s, sep) # 0

\* text.split(separator), separator non-empty
RECURSIVE Split(_, _)
Split(s, sep) ==
    LET i == Find(s, sep)
    IN  IF i = 0 THEN <<s>>
        ELSE <<SubSeq(s, 1, i - 1)>> \o Split(SubSeq(s, i + Len(sep), Len(s)), sep)

\* "".join(parts)
RECURSIVE Join(_)
Join(parts) == IF parts = <<>> THEN <<>> ELSE Head(parts) \o Join(Tail(parts))

\* separators[separators.index(separator) + 1:]
SeparatorsAfter(seps, sep) ==
    LET k == CHOOSE i \in 1..Len(seps) :
                 seps[i] = sep /\ \A j \in 1..(i - 1) : seps[j] # sep
    IN  SubSeq(seps, k + 1, Len(seps))

\* "".join(current_chunk)[-overlap:] if overlap > 0 else ""
OverlapText(cur, ov) == IF ov > 0 THEN PyTail(Join(cur), ov) ELSE <<>>

\* The buffer restarted from its last piece instead of its last characters.
CarryOverByPiece(cur, piece, ov) ==
    (IF ov > 0 THEN <<cur[Len(cur)]>> ELSE <<>>) \o <<piece>>

\* current_chunk after an overflow flush: the overlap text, when there is
\* one, and then the piece that did not fit.
CarryOver(cur, piece, ov) ==
    LET overlap_text == OverlapText(cur, ov)
    IN  (IF overlap_text # <<>> THEN <<overlap_text>> ELSE <<>>) \o <<piece>>

RECURSIVE SplitTextRecursive(_, _, _, _)
RECURSIVE PackPieces(_, _, _, _, _, _, _)
RECURSIVE TrySeparators(_, _, _, _, _)

\* The loop over the splits of one separator, from split i on.  acc holds
\* chunks, current_chunk (cur), current_length (len) and whether every
\* recursive call so far returned.
PackPieces(splits, i, sep, seps, size, ov, acc) ==
    IF acc.status # "returns" THEN [status |-> acc.status, chunks |-> <<>>]
    ELSE IF i > Len(splits)
    THEN \* the last chunk, if there is one
         IF acc.cur # <<>> /\ Strip(Join(acc.cur)) # <<>>
         THEN [status |-> "returns",
               chunks |-> Append(acc.chunks, Strip(Join(acc.cur)))]
         ELSE [status |-> "returns", chunks |-> acc.chunks]
    ELSE
    LET piece == splits[i] \o (IF i < Len(splits) THEN sep ELSE <<>>)
        piece_length == Len(piece)
    IN  IF piece_length > size
        THEN \* flush the buffer, split the piece with the later separators
             LET flushed == IF acc.cur # <<>>
                            THEN Append(acc.chunks, Strip(Join(acc.cur)))
                            ELSE acc.chunks
                 sub == SplitTextRecursive(piece, size, ov,
                                           SeparatorsAfter(seps, sep))
             IN  PackPieces(splits, i + 1, sep, seps, size, ov,
                     [status |-> sub.status, chunks |-> flushed \o sub.chunks,
                      cur |-> <<>>, len |-> 0])
        ELSE IF acc.len + piece_length > size /\ acc.cur # <<>>
        THEN \* flush the buffer and carry its tail over
             LET overlap_text == OverlapText(acc.cur, ov)
             IN  PackPieces(splits, i + 1, sep, seps, size, ov,
                     [status |-> "returns",
                      chunks |-> Append(acc.chunks, Strip(Join(acc.cur))),
                      cur |-> CarryOver(acc.cur, piece, ov),
                      len |-> Len(overlap_text) + piece_length])
        ELSE PackPieces(splits, i + 1, sep, seps, size, ov,
                     [status |-> "returns", chunks |-> acc.chunks,
                      cur |-> Append(acc.cur, piece),
                      len |-> acc.len + piece_length])

\* The overflow flushes of the loop over the splits of one separator, from
\* split i on with buffer cur: the buffer flushed, the piece that did not
\* fit, and the buffer the loop went on with.
RECURSIVE OverflowFlushes(_, _, _, _, _, _)
OverflowFlushes(splits, i, sep, size, ov, cur) ==
    IF i > Len(splits) THEN {}
    ELSE
    LET piece == splits[i] \o (IF i < Len(splits) THEN sep ELSE <<>>)
    IN  IF Len(piece) > size
        THEN OverflowFlushes(splits, i + 1, sep, size, ov, <<>>)
        ELSE IF Len(Join(cur)) + Len(piece) > size /\ cur # <<>>
        THEN {[buffer |-> Join(cur), piece |-> piece,
               next |-> Join(CarryOver(cur, piece, ov))]}
                \cup OverflowFlushes(splits, i + 1, sep, size, ov,
                                     CarryOver(cur, piece, ov))
        ELSE OverflowFlushes(splits, i + 1, sep, size, ov, Append(cur, piece))

\* The pieces longer than chunk_size met by the loop over the splits of one
\* separator, from split i on with buffer cur: the piece, the buffer pending
\* when it was met, and the separators it is split with.
RECURSIVE OversizedPieces(_, _, _, _, _, _, _)
OversizedPieces(splits, i, sep, seps, size, ov, cur) ==
    IF i > Len(splits) THEN {}
    ELSE
    LET piece == splits[i] \o (IF i < Len(splits) THEN sep ELSE <<>>)
    IN  IF Len(piece) > size
        THEN {[piece |-> piece, pending |-> cur,
               with |-> SeparatorsAfter(seps, sep)]}
                \cup OversizedPieces(splits, i + 1, sep, seps, size, ov, <<>>)
        ELSE IF Len(Join(cur)) + Len(piece) > size /\ cur # <<>>
        THEN OversizedPieces(splits, i + 1, sep, seps, size, ov,
                             CarryOver(cur, piece, ov))
        ELSE OversizedPieces(splits, i + 1, sep, seps, size, ov,
                             Append(cur, piece))

\* The position in seps of the separator the for loop stops at, from the
\* k-th on: the empty separator, or one that is in the text.
RECURSIVE SeparatorUsed(_, _, _)
SeparatorUsed(t, seps, k) ==
    IF seps[k] = <<>> \/ Contains(t, seps[k]) THEN k
    ELSE SeparatorUsed(t, seps, k + 1)

\* The overflow flushes of one call of _split_text_recursive.
FlushesOfCall(t, size, ov, seps) ==
    IF Strip(t) = <<>> \/ Len(t) <= size THEN {}
    ELSE LET sep == seps[SeparatorUsed(t, seps, 1)]
         IN  IF sep = <<>> THEN {}
             ELSE OverflowFlushes(Split(t, sep), 1, sep, size, ov, <<>>)

\* The pieces longer than chunk_size of one call of _split_text_recursive.
OversizedOfCall(t, size, ov, seps) ==
    IF Strip(t) = <<>> \/ Len(t) <= size THEN {}
    ELSE LET sep == seps[SeparatorUsed(t, seps, 1)]
         IN  IF sep = <<>> THEN {}
             ELSE OversizedPieces(Split(t, sep), 1, sep, seps, size, ov, <<>>)

\* The calls of _split_text_recursive that one call leads to, itself
\* included, each with its text and its separators.
RECURSIVE CallsOf(_, _, _, _)
CallsOf(t, size, ov, seps) ==
    {[text |-> t, separators |-> seps]}
        \cup UNION {CallsOf(e.piece, size, ov, e.with) :
                       e \in OversizedOfCall(t, size, ov, seps)}

\* Every text cut at the character tier, whatever separators it holds.
TrySeparatorsLastResort(t, size, ov, seps, k) == ChunkBySize(t, size, ov)

\* for separator in separators, from the k-th on
TrySeparators(t, size, ov, seps, k) ==
    IF k > Len(seps) THEN [status |-> "returns", chunks |-> <<>>]
    ELSE IF seps[k] = <<>> THEN ChunkBySize(t, size, ov)
    ELSE IF Contains(t, seps[k])
    THEN PackPieces(Split(t, seps[k]), 1, seps[k], seps, size, ov,
             [status |-> "returns", chunks |-> <<>>, cur |-> <<>>, len |-> 0])
    ELSE TrySeparators(t, size, ov, seps, k + 1)

SplitTextRecursive(t, size, ov, seps) ==
    IF Strip(t) = <<>> THEN [status |-> "returns", chunks |-> <<>>]
    ELSE IF Len(t) <= size THEN [status |-> "returns", chunks |-> <<Strip(t)>>]
    ELSE TrySeparators(t, size, ov, seps, 1)

\* chunk_text_recursive(text, chunk_size, overlap)
ChunkTextRecursive(t, size, ov) == SplitTextRecursive(t, size, ov, Separators)

\* The call returns when _split_text_recursive does.
RecursiveReturn ==
    /\ pc = "recursive_call"
    /\ LET out == ChunkTextRecursive(text, chunk_size, overlap)
       IN  /\ out.status = "returns"
           /\ result' = out.chunks
    /\ pc' = "done"
    /\ UNCHANGED <<args, process, store,
                   sem, chunk_size, overlap, tokens, loop, batch, exc>>

\* ------------------------------------------ chunk_token.chunk_text_by_tokens
\* Token budget arithmetic of the dispatcher and the clamp of the chunker.
CharsPerToken == 4
MinChunkTokens == 50
MinOverlapTokens == 10
ClampDivisor == 4

\* An overlap that reaches the budget cut down to the budget itself.
ClampOverlapToBudget(size, ov) == IF ov >= size THEN size ELSE ov

\* if overlap_tokens >= chunk_size_tokens: overlap_tokens = chunk_size_tokens // 4
ClampOverlap(size, ov) == IF ov >= size THEN size \div ClampDivisor ELSE ov

IsWord(id) == id = 1

\* tokenizer.decode(chunk_tokens, skip_special_tokens=True).strip(): the words
\* of the window; it raises on an id it does not know.
DecodeFails(window) == \E k \in 1..Len(window) : window[k] = 2
Decode(window) == SelectSeq(window, IsWord)

\* TokenIter giving up the rest of the tokens when a window fails to decode.
TokenIterAborting(toks, size, ov, st) ==
    LET end == Min(st + size, Len(toks))
        chunk_tokens == PySlice(toks, st, end)
    IN  [emitted |-> ~DecodeFails(chunk_tokens) /\ Decode(chunk_tokens) # <<>>,
         chunk |-> Decode(chunk_tokens),
         next |-> IF DecodeFails(chunk_tokens) THEN Len(toks) ELSE end - ov]

\* One iteration of the while loop over the token ids.
TokenIter(toks, size, ov, st) ==
    LET end == Min(st + size, Len(toks))
        chunk_tokens == PySlice(toks, st, end)
    IN  [emitted |-> ~DecodeFails(chunk_tokens) /\ Decode(chunk_tokens) # <<>>,
         chunk |-> Decode(chunk_tokens),
         next |-> end - ov]

\* OnImportError falling back to the fixed window instead.
OnImportErrorFixed(size, ov) ==
    [pc |-> "fixed_loop", chunk_size |-> size, overlap |-> ov]

\* The dispatcher's except ImportError of the token branch:
\* return chunk_text_recursive(text, chunk_size, overlap).
OnImportError(size, ov) ==
    [pc |-> "recursive_call", chunk_size |-> size, overlap |-> ov]

\* The functions of chunk_token that call get_tokenizer.
Callers == {"chunk_text_by_tokens", "estimate_token_count", "analyze_tokenization"}

\* A handle that is never kept.
AfterLoadUncached(ok, handle) == 0

\* _tokenizer after the try of get_tokenizer: the handle from_pretrained
\* returned, or still None when it raised.
AfterLoad(ok, handle) == IF ok THEN handle ELSE 0

\* One call of get_tokenizer(): with _tokenizer None it loads, which may
\* fail and leaves as ImportError; otherwise it returns _tokenizer.
GetTokenizer ==
    /\ pc = "tokenizer_idle"
    /\ Len(history) < MaxCalls
    /\ \E caller \in Callers, ok \in BOOLEAN :
          IF tokenizer = 0
          THEN /\ attempts' = attempts + 1
               /\ loads' = IF ok THEN loads + 1 ELSE loads
               /\ tokenizer' = AfterLoad(ok, loads + 1)
               /\ history' = Append(history,
                                [caller |-> caller, raised |-> ~ok,
                                 handle |-> IF ok THEN tokenizer' ELSE 0])
          ELSE /\ ok
               /\ history' = Append(history,
                                [caller |-> caller, raised |-> FALSE,
                                 handle |-> tokenizer])
               /\ UNCHANGED <<tokenizer, loads, attempts>>
    /\ UNCHANGED <<args, pc, chunk_size, overlap, tokens, loop, sem, batch,
                   store, result, exc>>

\* get_tokenizer(), then the clamp of overlap_tokens.  A tokenizer that fails
\* to load leaves as ImportError, which the dispatcher catches and answers by
\* chunk_text_recursive(text, chunk_size, overlap) on its own arguments.
TokenCall ==
    /\ pc = "token_call"
    /\ IF capability = "ready"
       THEN /\ overlap' = ClampOverlap(chunk_size, overlap)
            /\ pc' = "token_encode"
            /\ UNCHANGED <<chunk_size, exc>>
       ELSE IF call = "dispatch"
       THEN LET to == OnImportError(asked.chunk_size, asked.overlap)
            IN  /\ chunk_size' = to.chunk_size
                /\ overlap' = to.overlap
                /\ pc' = to.pc
                /\ UNCHANGED exc
       ELSE /\ pc' = "raised"
            /\ exc' = "ImportError"
            /\ UNCHANGED <<chunk_size, overlap>>
    /\ UNCHANGED <<args, process, store, sem, tokens, loop, batch, result>>

\* tokens = tokenizer.encode(text); an empty list returns [] at once.
TokenEncode ==
    /\ pc = "token_encode"
    /\ \E toks \in TokenSeqs :
          /\ tokens' = toks
          /\ IF toks = <<>>
             THEN pc' = "done" /\ result' = <<>>
             ELSE pc' = "token_loop" /\ UNCHANGED result
    /\ UNCHANGED <<args, process, store,
                   sem, chunk_size, overlap, loop, batch, exc>>

\* tokenizer.encode raises: the chunker answers with chunk_fixed.chunk_text(text),
\* whose chunk_size and overlap are the config defaults.
TokenEncodeFails ==
    /\ pc = "token_encode"
    /\ \E cfg \in Configs :
          /\ chunk_size' = cfg[1]
          /\ overlap' = cfg[2]
    /\ pc' = "fixed_loop"
    /\ UNCHANGED <<args, process, store, sem, tokens, loop, batch, result, exc>>

\* The loop body while start < len(tokens); the break on start >= len(tokens)
\* is the same test as the loop's.
TokenLoop ==
    /\ pc = "token_loop"
    /\ start < Len(tokens)
    /\ iters < IterCap
    /\ LET it == TokenIter(tokens, chunk_size, overlap, start)
       IN  /\ chunks' = IF it.emitted THEN Append(chunks, it.chunk) ELSE chunks
           /\ start' = it.next
    /\ iters' = iters + 1
    /\ visited' = visited \cup {start}
    /\ UNCHANGED <<args, process, store,
                   sem, pc, chunk_size, overlap, tokens, batch, result, exc>>

TokenReturn ==
    /\ pc = "token_loop"
    /\ start >= Len(tokens)
    /\ pc' = "done"
    /\ result' = chunks
    /\ UNCHANGED <<args, process, store,
                   sem, chunk_size, overlap, tokens, loop, batch, exc>>

\* ------------------------------------------ chunk_semantic.chunk_text_semantic
IsSentenceEnd(c) == c \in {".", "!", "?"}
IsUpper(c) == c = "A"

\* Last position of the whitespace run that starts at position i.
RECURSIVE RunEnd(_, _)
RunEnd(t, i) == IF i < Len(t) /\ IsSpace(t[i + 1]) THEN RunEnd(t, i + 1) ELSE i

\* Matches of (?<=[.!?])\s+(?=[A-Z...]): the whitespace runs that follow a
\* sentence end and precede an upper-case letter, by their first position.
SentenceBreaks(t) ==
    {i \in 2..(Len(t) - 1) :
        /\ IsSentenceEnd(t[i - 1])
        /\ IsSpace(t[i])
        /\ RunEnd(t, i) < Len(t)
        /\ IsUpper(t[RunEnd(t, i) + 1])}

\* sentence_endings.split(text)
RECURSIVE RegexSplit(_)
RegexSplit(t) ==
    IF SentenceBreaks(t) = {} THEN <<t>>
    ELSE LET i == CHOOSE b \in SentenceBreaks(t) :
                      \A c \in SentenceBreaks(t) : b <= c
         IN  <<SubSeq(t, 1, i - 1)>>
                 \o RegexSplit(SubSeq(t, RunEnd(t, i) + 1, Len(t)))

NotBlank(c) == Strip(c) # <<>>

\* [s.strip() for s in sentences if s.strip()]
SplitIntoSentences(t) ==
    LET parts == SelectSeq(RegexSplit(t), NotBlank)
    IN  [k \in 1..Len(parts) |-> Strip(parts[k])]

RECURSIVE Sum(_)
Sum(ds) == IF ds = <<>> THEN 0 ELSE Head(ds) + Sum(Tail(ds))

\* distance > avg_distance * (1 + threshold), with avg_distance the mean of
\* ds and the threshold th counted in halves.
IsBreak(d, ds, th) ==
    d * Len(ds) * SEMANTIC_THRESHOLD_DEN > Sum(ds) * (SEMANTIC_THRESHOLD_DEN + th)

\* The positions i + 1 appended by the loop over enumerate(distances).
RECURSIVE BreaksFrom(_, _, _)
BreaksFrom(ds, th, k) ==
    IF k > Len(ds) THEN <<>>
    ELSE (IF IsBreak(ds[k], ds, th) THEN <<k>> ELSE <<>>)
             \o BreaksFrom(ds, th, k + 1)

\* Breakpoints that repeats the start instead of closing with the end.
BreakpointsOpen(ds, th, n) == <<0>> \o BreaksFrom(ds, th, 1) \o <<0>>

\* breakpoints = [0] + ... + [len(sentences)]
Breakpoints(ds, th, n) == <<0>> \o BreaksFrom(ds, th, 1) \o <<n>>

\* " ".join(parts)
RECURSIVE JoinSpace(_)
JoinSpace(parts) ==
    IF parts = <<>> THEN <<>>
    ELSE IF Len(parts) = 1 THEN parts[1]
    ELSE parts[1] \o <<" ">> \o JoinSpace(Tail(parts))

\* The loop counting the sentences without the space that joins them.
RECURSIVE SplitLargeFromUnspaced(_, _, _, _)
SplitLargeFromUnspaced(sents, i, max_size, acc) ==
    IF i > Len(sents)
    THEN IF acc.cur # <<>> THEN Append(acc.chunks, JoinSpace(acc.cur))
         ELSE acc.chunks
    ELSE LET sentence_length == Len(sents[i])
             flush == acc.len + sentence_length > max_size /\ acc.cur # <<>>
         IN  SplitLargeFromUnspaced(sents, i + 1, max_size,
                 [chunks |-> IF flush THEN Append(acc.chunks, JoinSpace(acc.cur))
                             ELSE acc.chunks,
                  cur |-> IF flush THEN <<sents[i]>> ELSE Append(acc.cur, sents[i]),
                  len |-> (IF flush THEN 0 ELSE acc.len) + sentence_length])

\* _split_large_chunk, from the i-th sentence on; acc holds chunks,
\* current_chunk (cur) and current_length (len).
RECURSIVE SplitLargeFrom(_, _, _, _)
SplitLargeFrom(sents, i, max_size, acc) ==
    IF i > Len(sents)
    THEN IF acc.cur # <<>> THEN Append(acc.chunks, JoinSpace(acc.cur))
         ELSE acc.chunks
    ELSE LET sentence_length == Len(sents[i])
             flush == acc.len + sentence_length > max_size /\ acc.cur # <<>>
         IN  SplitLargeFrom(sents, i + 1, max_size,
                 [chunks |-> IF flush THEN Append(acc.chunks, JoinSpace(acc.cur))
                             ELSE acc.chunks,
                  cur |-> IF flush THEN <<sents[i]>> ELSE Append(acc.cur, sents[i]),
                  len |-> (IF flush THEN 0 ELSE acc.len) + sentence_length + 1])

\* A subdivision that keeps the first sentence only.
SplitLargeChunkFirstOnly(sents, max_size) == <<sents[1]>>

SplitLargeChunk(sents, max_size) ==
    SplitLargeFrom(sents, 1, max_size, [chunks |-> <<>>, cur |-> <<>>, len |-> 0])

\* The sentences of each chunk of _split_large_chunk: current_chunk at each
\* flush, from the i-th sentence on.
RECURSIVE SplitLargeGroupsFrom(_, _, _, _, _)
SplitLargeGroupsFrom(sents, i, max_size, groups, cur) ==
    IF i > Len(sents)
    THEN IF cur # <<>> THEN Append(groups, cur) ELSE groups
    ELSE IF Len(JoinSpace(cur)) + 1 + Len(sents[i]) > max_size /\ cur # <<>>
    THEN SplitLargeGroupsFrom(sents, i + 1, max_size, Append(groups, cur),
                              <<sents[i]>>)
    ELSE SplitLargeGroupsFrom(sents, i + 1, max_size, groups, Append(cur, sents[i]))

SplitLargeGroups(sents, max_size) ==
    SplitLargeGroupsFrom(sents, 1, max_size, <<>>, <<>>)

\* _split_large_chunk(sentences, max_size) returns.
SplitLargeReturn ==
    /\ pc = "split_large_call"
    /\ result' = SplitLargeChunk(sentences, chunk_size)
    /\ pc' = "done"
    /\ UNCHANGED <<args, process, store,
                   sem, chunk_size, overlap, tokens, loop, batch, exc>>

\* The groups sentences[start:end] of consecutive breakpoints: one candidate
\* chunk per iteration of the loop over range(len(breakpoints) - 1).
RECURSIVE CandidatesFrom(_, _, _)
CandidatesFrom(sents, bps, i) ==
    IF i > Len(bps) - 1 THEN <<>>
    ELSE <<PySlice(sents, bps[i], bps[i + 1])>> \o CandidatesFrom(sents, bps, i + 1)

Candidates(sents, bps) == CandidatesFrom(sents, bps, 1)

\* A candidate longer than max_chunk_size is subdivided, another one is
\* appended trimmed.
RECURSIVE ChunksOfCandidates(_, _)
ChunksOfCandidates(cands, size) ==
    IF cands = <<>> THEN <<>>
    ELSE (IF Len(JoinSpace(Head(cands))) > size
          THEN SplitLargeChunk(Head(cands), size)
          ELSE <<Strip(JoinSpace(Head(cands)))>>)
             \o ChunksOfCandidates(Tail(cands), size)

\* return [c for c in chunks if c.strip()]
SemanticChunks(sents, bps, size) ==
    SelectSeq(ChunksOfCandidates(Candidates(sents, bps), size), NotBlank)

\* return [text.strip()] if text.strip() else []
WholeText(t) == IF Strip(t) # <<>> THEN <<Strip(t)>> ELSE <<>>

\* model = SentenceTransformer(...), then the sentences; at most one sentence
\* returns at once.  A model that cannot be constructed raises here.
SemanticCall ==
    /\ pc = "semantic_call"
    /\ IF capability = "load_fails"
       THEN /\ pc' = "raised"
            /\ exc' = "EmbedderError"
            /\ UNCHANGED <<sentences, result>>
       ELSE /\ sentences' = SplitIntoSentences(text)
            /\ IF Len(sentences') <= 1
               THEN pc' = "done" /\ result' = WholeText(text)
               ELSE pc' = "semantic_encode" /\ UNCHANGED result
            /\ UNCHANGED exc
    /\ UNCHANGED <<args, process, store,
                   chunk_size, overlap, tokens, loop, distances,
                   breakpoints, batch>>

\* embeddings = model.encode(sentences), the distances of consecutive
\* sentences and the breakpoints.  An embedder that fails raises here.
SemanticEncode ==
    /\ pc = "semantic_encode"
    /\ IF capability = "encode_fails"
       THEN /\ pc' = "raised"
            /\ exc' = "EmbedderError"
            /\ UNCHANGED <<distances, breakpoints>>
       ELSE /\ \E ds \in [1..(Len(sentences) - 1) -> DistanceValues] :
                  /\ distances' = ds
                  /\ breakpoints' = Breakpoints(ds, threshold, Len(sentences))
            /\ pc' = "semantic_chunks"
            /\ UNCHANGED exc
    /\ UNCHANGED <<args, process, store,
                   chunk_size, overlap, tokens, loop, sentences, batch,
                   result>>

\* The loop over the breakpoints and the return.
SemanticReturn ==
    /\ pc = "semantic_chunks"
    /\ pc' = "done"
    /\ result' = SemanticChunks(sentences, breakpoints, chunk_size)
    /\ UNCHANGED <<args, process, store,
                   sem, chunk_size, overlap, tokens, loop, batch, exc>>

\* chunk_text_semantic as a function of its arguments, of the embedder's
\* state and of the distances ds the embeddings give.
SemanticOutcome(t, cap, size, th, ds) ==
    IF cap = "load_fails" THEN [status |-> "raises", chunks |-> <<>>]
    ELSE IF Len(SplitIntoSentences(t)) <= 1
    THEN [status |-> "returns", chunks |-> WholeText(t)]
    ELSE IF cap = "encode_fails" THEN [status |-> "raises", chunks |-> <<>>]
    ELSE [status |-> "returns",
          chunks |-> SemanticChunks(SplitIntoSentences(t),
                         Breakpoints(ds, th, Len(SplitIntoSentences(t))), size)]

\* The distance sequences model.encode can lead to on text t.
DistanceChoices(t, m, cap) ==
    IF m = "semantic" /\ cap = "ready" /\ Len(SplitIntoSentences(t)) >= 2
    THEN [1..(Len(SplitIntoSentences(t)) - 1) -> DistanceValues]
    ELSE {<<>>}

\* ------------------------------------------------ chunk_unified.chunk_text
\* The branch on method.  The token branch converts the character budget and
\* calls chunk_text_by_tokens; when the module cannot be imported it calls
\* chunk_text_recursive with the arguments as they came.
\* The semantic branch (the embedder module cannot be imported: the
\* recursive chunker on the arguments as they came), and the ValueError for
\* a method that is none of the known ones.
OnSemanticImportError(size, ov) ==
    [pc |-> "recursive_call", chunk_size |-> size, overlap |-> ov]

\* chunk_text_langchain(text, "recursive", chunk_size, overlap) when the
\* splitter library cannot be imported: its own except ImportError answers
\* with chunk_fixed.chunk_text(text, chunk_size, overlap), so the
\* dispatcher's except ImportError is not reached.
OnLangchainImportError(size, ov) ==
    [pc |-> "fixed_loop", chunk_size |-> size, overlap |-> ov]

DispatchBranch(m, cap, size, ov) ==
    IF m = "fixed" THEN [pc |-> "fixed_loop", chunk_size |-> size, overlap |-> ov]
    ELSE IF m = "recursive"
    THEN [pc |-> "recursive_call", chunk_size |-> size, overlap |-> ov]
    ELSE IF m = "token"
    THEN IF cap = "no_module" THEN OnImportError(size, ov)
         ELSE [pc |-> "token_call",
               chunk_size |-> Max(size \div CharsPerToken, MinChunkTokens),
               overlap |-> Max(ov \div CharsPerToken, MinOverlapTokens)]
    ELSE IF m = "semantic"
    THEN IF cap = "no_module" THEN OnSemanticImportError(size, ov)
         ELSE [pc |-> "semantic_call", chunk_size |-> size, overlap |-> ov]
    ELSE IF m = "langchain"
    THEN IF cap = "no_module" THEN OnLangchainImportError(size, ov)
         ELSE [pc |-> "langchain_split", chunk_size |-> size, overlap |-> ov]
    ELSE [pc |-> "raised", chunk_size |-> size, overlap |-> ov]

Dispatch ==
    /\ pc = "dispatch_call"
    /\ LET to == DispatchBranch(method, capability, chunk_size, overlap)
       IN  /\ pc' = to.pc
           /\ chunk_size' = to.chunk_size
           /\ overlap' = to.overlap
           /\ exc' = IF to.pc = "raised" THEN "ValueError" ELSE exc
    /\ UNCHANGED <<args, process, store, sem, tokens, loop, batch, result>>

\* chunk_text as a function: fixed, recursive, token without a tokenizer,
\* semantic with the distances ds its embeddings give, and an unknown method.
ChunkTextOutcome(t, m, cap, size, ov, th, ds) ==
    IF m = "fixed" THEN FixedChunkText(t, size, ov)
    ELSE IF m \in {"recursive", "token"} THEN ChunkTextRecursive(t, size, ov)
    ELSE IF m = "semantic"
    THEN IF cap = "no_module" THEN ChunkTextRecursive(t, size, ov)
         ELSE SemanticOutcome(t, cap, size, th, ds)
    ELSE IF m = "langchain"
    THEN IF cap = "no_module" THEN FixedChunkText(t, size, ov)
         ELSE [status |-> "external", chunks |-> <<>>]
    ELSE [status |-> "raises", chunks |-> <<>>]

\* The exception a raising chunk_text leaves with.
OutcomeExc(m) ==
    IF m = "fixed" THEN "IndexError"
    ELSE IF m = "semantic" THEN "EmbedderError"
    ELSE "ValueError"

\* ----------------------------------- chunk_unified.prepare_chunks_for_db
\* f"doc_{chunk_id}"
DocId(n) == <<"doc_", n>>

\* EmitChunks without the test chunk.strip().
RECURSIVE EmitChunksUnfiltered(_, _, _, _, _)
EmitChunksUnfiltered(chs, i, filename, m, acc) ==
    IF i > Len(chs) THEN acc
    ELSE EmitChunksUnfiltered(chs, i + 1, filename, m,
             [texts |-> Append(acc.texts, chs[i]),
              metadatas |-> Append(acc.metadatas,
                                [source |-> filename, chunk_index |-> i - 1,
                                 total_chunks |-> Len(chs), chunk_method |-> m]),
              ids |-> Append(acc.ids, DocId(acc.chunk_id)),
              chunk_id |-> acc.chunk_id + 1])

\* EmitChunks with chunk_id += 1 outside the test, so that a skipped chunk
\* takes an id with it.
RECURSIVE EmitChunksCountsAll(_, _, _, _, _)
EmitChunksCountsAll(chs, i, filename, m, acc) ==
    IF i > Len(chs) THEN acc
    ELSE IF Strip(chs[i]) # <<>>
    THEN EmitChunksCountsAll(chs, i + 1, filename, m,
             [texts |-> Append(acc.texts, chs[i]),
              metadatas |-> Append(acc.metadatas,
                                [source |-> filename, chunk_index |-> i - 1,
                                 total_chunks |-> Len(chs), chunk_method |-> m]),
              ids |-> Append(acc.ids, DocId(acc.chunk_id)),
              chunk_id |-> acc.chunk_id + 1])
    ELSE EmitChunksCountsAll(chs, i + 1, filename, m,
             [acc EXCEPT !.chunk_id = acc.chunk_id + 1])

\* for i, chunk in enumerate(chunks), from the i-th chunk (1-based) on.
RECURSIVE EmitChunks(_, _, _, _, _)
EmitChunks(chs, i, filename, m, acc) ==
    IF i > Len(chs) THEN acc
    ELSE IF Strip(chs[i]) # <<>>
    THEN EmitChunks(chs, i + 1, filename, m,
             [texts |-> Append(acc.texts, chs[i]),
              metadatas |-> Append(acc.metadatas,
                                [source |-> filename, chunk_index |-> i - 1,
                                 total_chunks |-> Len(chs), chunk_method |-> m]),
              ids |-> Append(acc.ids, DocId(acc.chunk_id)),
              chunk_id |-> acc.chunk_id + 1])
    ELSE EmitChunks(chs, i + 1, filename, m, acc)

\* One document of the batch: chunk_text(content, method=method), then the
\* loop over its chunks.
PrepareDocument ==
    /\ pc = "prepare_loop"
    /\ doc_i < Len(documents)
    /\ \E ds \in DistanceChoices(documents[doc_i + 1].content, method,
                                  capability) :
       \* out is the call of chunk_text on the document, acc the lists
       \* after its chunks are appended; each is computed once
       \E out \in {ChunkTextOutcome(documents[doc_i + 1].content, method,
                                    capability, chunk_size, overlap,
                                    threshold, ds)} :
       \E acc \in {EmitChunks(out.chunks, 1, documents[doc_i + 1].filename,
                              method,
                              [texts |-> all_texts,
                               metadatas |-> all_metadatas,
                               ids |-> all_ids, chunk_id |-> chunk_id])} :
           /\ out.status # "diverges"
           /\ IF out.status = "raises"
              THEN /\ pc' = "raised"
                   /\ exc' = OutcomeExc(method)
                   /\ UNCHANGED batch
              ELSE /\ all_texts' = acc.texts
                   /\ all_metadatas' = acc.metadatas
                   /\ all_ids' = acc.ids
                   /\ chunk_id' = acc.chunk_id
                   /\ doc_i' = doc_i + 1
                   /\ UNCHANGED <<pc, exc>>
    /\ UNCHANGED <<args, process, store,
                   sem, chunk_size, overlap, tokens, loop, result>>

\* return all_texts, all_metadatas, all_ids
PrepareReturn ==
    /\ pc = "prepare_loop"
    /\ doc_i = Len(documents)
    /\ pc' = "done"
    /\ result' = <<all_texts, all_metadatas, all_ids>>
    /\ UNCHANGED <<args, process, store,
                   sem, chunk_size, overlap, tokens, loop, batch, exc>>

\* ------------------------------------ chroma_manager.ChromaDBManager
\* A batch running past the slice it should end at.
InsertEndOverlapping(i, size, total_docs) == Min(i + size + 1, total_docs)

\* end_idx = min(i + batch_size, total_docs)
InsertEnd(i, size, total_docs) == Min(i + size, total_docs)

\* One iteration of for i in range(0, total_docs, batch_size): one call of
\* collection.add with the three slices.
InsertBatch ==
    /\ pc = "insert_loop"
    /\ insert_i < Len(all_texts)
    /\ LET end_idx == InsertEnd(insert_i, batch_size, Len(all_texts))
       IN  added' = Append(added,
                       [documents |-> PySlice(all_texts, insert_i, end_idx),
                        metadatas |-> PySlice(all_metadatas, insert_i, end_idx),
                        ids |-> PySlice(all_ids, insert_i, end_idx)])
    /\ insert_i' = insert_i + batch_size
    /\ UNCHANGED <<args, process, pc, chunk_size, overlap, tokens, loop, sem,
                   batch, batch_size, result, exc>>

\* The range is exhausted: insert_documents returns.
InsertReturn ==
    /\ pc = "insert_loop"
    /\ insert_i >= Len(all_texts)
    /\ pc' = "done"
    /\ UNCHANGED <<args, process, store, chunk_size, overlap, tokens, loop, sem,
                   batch, result, exc>>

\* ------------------------------------------------------------ entry points
BatchesOf(contents) ==
    {[i \in 1..Len(cs) |-> [filename |-> i, content |-> cs[i]]] :
        cs \in SeqsUpTo(contents, MaxDocs)}

Batches == BatchesOf(DocTexts)
SemanticBatches == BatchesOf(SentenceDocs)

\* The process has not loaded a tokenizer, the collection is empty.
InitProcess ==
    /\ tokenizer = 0
    /\ loads = 0
    /\ attempts = 0
    /\ history = <<>>

InitStore ==
    /\ batch_size = BATCH_SIZE
    /\ insert_i = 0
    /\ added = <<>>

InitLocals ==
    /\ tokens = <<>>
    /\ start = 0
    /\ chunks = <<>>
    /\ iters = 0
    /\ visited = {}
    /\ sentences = <<>>
    /\ distances = <<>>
    /\ breakpoints = <<>>
    /\ doc_i = 0
    /\ all_texts = <<>>
    /\ all_metadatas = <<>>
    /\ all_ids = <<>>
    /\ chunk_id = 0
    /\ result = <<>>
    /\ exc = "none"
    /\ InitProcess
    /\ InitStore

\* The caller's chunk_size, and an overlap that may reach or pass it.
InitSizes ==
    /\ chunk_size \in 1..MaxSize
    /\ overlap \in 0..MaxSize
    /\ asked = [chunk_size |-> chunk_size, overlap |-> overlap]

\* chunk_fixed.chunk_text(text, chunk_size, overlap)
InitFixed ==
    /\ call = "fixed"
    /\ pc = "fixed_loop"
    /\ text \in WindowTexts
    /\ method = "none"
    /\ capability = "ready"
    /\ threshold = SEMANTIC_THRESHOLD_NUM
    /\ documents = <<>>
    /\ InitSizes
    /\ InitLocals

\* chunk_fixed.chunk_text(text, chunk_size, overlap) with a wide window.
InitFixedWide ==
    /\ call = "fixed"
    /\ pc = "fixed_loop"
    /\ text \in WideTexts
    /\ method = "none"
    /\ capability = "ready"
    /\ threshold = SEMANTIC_THRESHOLD_NUM
    /\ documents = <<>>
    /\ chunk_size = WideSize
    /\ overlap = WideSize - 2
    /\ asked = [chunk_size |-> chunk_size, overlap |-> overlap]
    /\ InitLocals

\* chunk_recursive._chunk_by_size(text, chunk_size, overlap)
InitBySize ==
    /\ call = "by_size"
    /\ pc = "by_size_loop"
    /\ text \in WindowTexts
    /\ method = "none"
    /\ capability = "ready"
    /\ threshold = SEMANTIC_THRESHOLD_NUM
    /\ documents = <<>>
    /\ InitSizes
    /\ InitLocals

\* chunk_recursive.chunk_text_recursive(text, chunk_size, overlap)
InitRecursive ==
    /\ call = "recursive"
    /\ pc = "recursive_call"
    /\ text \in Texts
    /\ method = "none"
    /\ capability = "ready"
    /\ threshold = SEMANTIC_THRESHOLD_NUM
    /\ documents = <<>>
    /\ InitSizes
    /\ InitLocals

\* chunk_token.chunk_text_by_tokens(text, chunk_size_tokens, overlap_tokens);
\* the module is importable, its tokenizer may fail to load.
InitToken ==
    /\ call = "token"
    /\ pc = "token_call"
    /\ text \in TokenTexts
    /\ method = "none"
    /\ capability \in {"load_fails", "ready"}
    /\ threshold = SEMANTIC_THRESHOLD_NUM
    /\ documents = <<>>
    /\ InitSizes
    /\ InitLocals

\* chunk_semantic.chunk_text_semantic(text, max_chunk_size, threshold); the
\* module is importable, its embedder may fail.
InitSemantic ==
    /\ call = "semantic"
    /\ pc = "semantic_call"
    /\ text \in SemanticTexts
    /\ method = "none"
    /\ capability \in {"load_fails", "encode_fails", "ready"}
    /\ threshold \in Thresholds
    /\ documents = <<>>
    /\ chunk_size \in 1..MaxSize
    /\ overlap = 0
    /\ asked = [chunk_size |-> chunk_size, overlap |-> overlap]
    /\ InitLocals

\* chunk_semantic._split_large_chunk(sentences, max_size)
InitSplitLarge ==
    /\ call = "split_large"
    /\ pc = "split_large_call"
    /\ text = <<>>
    /\ method = "none"
    /\ capability = "ready"
    /\ threshold = SEMANTIC_THRESHOLD_NUM
    /\ documents = <<>>
    /\ chunk_size \in 1..MaxSize
    /\ overlap = 0
    /\ asked = [chunk_size |-> chunk_size, overlap |-> overlap]
    /\ tokens = <<>>
    /\ start = 0
    /\ chunks = <<>>
    /\ iters = 0
    /\ visited = {}
    /\ sentences \in SentenceLists
    /\ distances = <<>>
    /\ breakpoints = <<>>
    /\ doc_i = 0
    /\ all_texts = <<>>
    /\ all_metadatas = <<>>
    /\ all_ids = <<>>
    /\ chunk_id = 0
    /\ result = <<>>
    /\ exc = "none"
    /\ InitProcess
    /\ InitStore

\* The texts, metadata and ids of n chunks as prepare_chunks_for_db returns
\* them.
ItemTexts == {<<"a">>, <<"a", "a">>}
ItemLists == SeqsUpTo(ItemTexts, MaxItems)

\* ChromaDBManager.insert_documents(texts, metadatas, ids, batch_size) on a
\* collection just created.
InitInsert ==
    /\ call = "insert"
    /\ pc = "insert_loop"
    /\ text = <<>>
    /\ method = "fixed"
    /\ capability = "ready"
    /\ threshold = SEMANTIC_THRESHOLD_NUM
    /\ documents = <<>>
    /\ chunk_size = 1
    /\ overlap = 0
    /\ asked = [chunk_size |-> chunk_size, overlap |-> overlap]
    /\ tokens = <<>>
    /\ start = 0
    /\ chunks = <<>>
    /\ iters = 0
    /\ visited = {}
    /\ sentences = <<>>
    /\ distances = <<>>
    /\ breakpoints = <<>>
    /\ doc_i = 0
    /\ all_texts \in ItemLists
    /\ all_metadatas = [k \in 1..Len(all_texts) |->
                           [source |-> 1, chunk_index |-> k - 1,
                            total_chunks |-> Len(all_texts),
                            chunk_method |-> method]]
    /\ all_ids = [k \in 1..Len(all_texts) |-> DocId(k - 1)]
    /\ chunk_id = Len(all_texts)
    /\ result = <<>>
    /\ exc = "none"
    /\ InitProcess
    /\ batch_size \in 1..MaxBatch
    /\ insert_i = 0
    /\ added = <<>>

\* A process that has imported chunk_token: _tokenizer = None.
InitTokenizer ==
    /\ call = "tokenizer"
    /\ pc = "tokenizer_idle"
    /\ text = <<>>
    /\ method = "none"
    /\ capability = "ready"
    /\ threshold = SEMANTIC_THRESHOLD_NUM
    /\ documents = <<>>
    /\ chunk_size = 1
    /\ overlap = 0
    /\ asked = [chunk_size |-> chunk_size, overlap |-> overlap]
    /\ InitLocals

\* chunk_unified.chunk_text(text, "token", chunk_size, overlap) with a
\* tokenizer that loads, for sizes in characters large enough to pass the
\* floors of the conversion to tokens.
InitBudget ==
    /\ call = "dispatch"
    /\ pc = "dispatch_call"
    /\ text = <<>>
    /\ method = "token"
    /\ capability = "ready"
    /\ threshold = SEMANTIC_THRESHOLD_NUM
    /\ documents = <<>>
    /\ chunk_size \in 0..MaxChars
    /\ overlap \in 0..MaxChars
    /\ asked = [chunk_size |-> chunk_size, overlap |-> overlap]
    /\ InitLocals

\* The sizes a caller can hand to chunk_text: also a chunk_size that is not
\* positive and a negative overlap.
InitAnySizes ==
    /\ chunk_size \in (-1)..MaxSize
    /\ overlap \in (-1)..MaxSize
    /\ asked = [chunk_size |-> chunk_size, overlap |-> overlap]

\* chunk_unified.chunk_text(text, method, chunk_size, overlap)
InitDispatch ==
    /\ call = "dispatch"
    /\ pc = "dispatch_call"
    /\ method \in {"fixed", "recursive", "token", "semantic", "langchain", "bogus"}
    /\ capability \in {"no_module", "load_fails", "encode_fails", "ready"}
    /\ method \in {"fixed", "recursive", "bogus"} => capability = "ready"
    /\ method = "token" => capability # "encode_fails"
    \* the splitter library of the langchain method is not installed
    /\ method = "langchain" => capability = "no_module"
    /\ threshold = SEMANTIC_THRESHOLD_NUM
    /\ documents = <<>>
    /\ IF method \in {"fixed", "recursive"}
          \/ (method = "token" /\ capability # "ready")
       THEN InitAnySizes
       ELSE InitSizes
    \* chunk_text_semantic is not given the overlap
    /\ (method = "semantic" /\ capability # "no_module") => overlap = 0
    /\ text \in IF method = "semantic" THEN SemanticTexts
                ELSE IF method = "bogus" \/ (method = "token" /\ capability = "ready")
                THEN TokenTexts
                ELSE IF chunk_size <= 0 \/ overlap < 0 \/ method = "langchain"
                THEN DocTexts
                ELSE WindowTexts
    /\ InitLocals

\* chunk_unified.prepare_chunks_for_db(documents, method): chunk_text gets no
\* sizes and takes config.CHUNK_SIZE, config.CHUNK_OVERLAP.
InitPrepare ==
    /\ call = "prepare"
    /\ pc = "prepare_loop"
    /\ text = <<>>
    /\ method \in {"fixed", "recursive", "token", "semantic", "bogus"}
    /\ capability \in {"no_module", "load_fails", "encode_fails", "ready"}
    /\ method \in {"fixed", "recursive", "bogus"} => capability = "ready"
    /\ method = "token" => capability \in {"no_module", "load_fails"}
    /\ threshold = SEMANTIC_THRESHOLD_NUM
    /\ documents \in IF method = "semantic" THEN SemanticBatches ELSE Batches
    /\ \E cfg \in Configs :
          /\ chunk_size = cfg[1]
          /\ overlap = cfg[2]
    /\ asked = [chunk_size |-> chunk_size, overlap |-> overlap]
    /\ InitLocals

Init ==
    \/ InitFixed
    \/ InitFixedWide
    \/ InitBySize
    \/ InitRecursive
    \/ InitToken
    \/ InitSemantic
    \/ InitDispatch
    \/ InitPrepare
    \/ InitSplitLarge
    \/ InitTokenizer
    \/ InitInsert

Next ==
    \/ FixedLoop
    \/ FixedReturn
    \/ BySizeLoop
    \/ BySizeReturn
    \/ RecursiveReturn
    \/ TokenCall
    \/ TokenEncode
    \/ TokenEncodeFails
    \/ TokenLoop
    \/ TokenReturn
    \/ SemanticCall
    \/ SemanticEncode
    \/ SemanticReturn
    \/ Dispatch
    \/ PrepareDocument
    \/ PrepareReturn
    \/ SplitLargeReturn
    \/ GetTokenizer
    \/ InsertBatch
    \/ InsertReturn

Spec == Init /\ [][Next]_vars

\* chunk_text_recursive on its own.
NextRecursive == RecursiveReturn
SpecRecursive == InitRecursive /\ [][NextRecursive]_vars

\* The fixed chunk_text on its own.
NextFixed == FixedLoop \/ FixedReturn
SpecFixed == (InitFixed \/ InitFixedWide) /\ [][NextFixed]_vars

\* chunk_text_by_tokens on its own, with the fixed window it falls back to.
NextToken ==
    \/ TokenCall
    \/ TokenEncode
    \/ TokenEncodeFails
    \/ TokenLoop
    \/ TokenReturn
    \/ FixedLoop
    \/ FixedReturn
SpecToken == InitToken /\ [][NextToken]_vars

\* The way from the dispatcher to the token loop's sizes.
NextBudget == Dispatch \/ TokenCall
SpecBudget == InitBudget /\ [][NextBudget]_vars

\* The calls of get_tokenizer of one process.
NextTokenizer == GetTokenizer
SpecTokenizer == InitTokenizer /\ [][NextTokenizer]_vars

\* chunk_text_semantic on its own.
NextSemantic == SemanticCall \/ SemanticEncode \/ SemanticReturn
SpecSemantic == InitSemantic /\ [][NextSemantic]_vars

\* insert_documents on its own.
NextInsert == InsertBatch \/ InsertReturn
SpecInsert == InitInsert /\ [][NextInsert]_vars

\* _split_large_chunk on its own.
NextSplitLarge == SplitLargeReturn
SpecSplitLarge == InitSplitLarge /\ [][NextSplitLarge]_vars

\* ================================================================= claims
ValidSizes == asked.chunk_size >= 1 /\ asked.overlap >= 0
                 /\ asked.overlap < asked.chunk_size

AllWithin(cs, size) == \A i \in 1..Len(cs) : Len(cs[i]) <= size
NoneBlank(cs) == \A i \in 1..Len(cs) : Strip(cs[i]) # <<>>

\* The fixed window ran on the caller's sizes.
FixedCall == call = "fixed" \/ (call = "dispatch" /\ method = "fixed")

\* C1: chunk_text_by_tokens terminates.  The next window start of the token
\* loop is a function of the current start alone, so the loop ends exactly
\* when it never comes back to a start it has already processed: at the head
\* of the loop the start is a new one.
C1_TokenLoopTerminates ==
    pc = "token_loop" => start \notin visited

\* C2: in the fixed chunk_text with 0 <= overlap < chunk_size, every
\* iteration of the loop leaves the window start strictly greater.
C2_FixedStartIncreases ==
    [][(FixedCall /\ ValidSizes /\ pc = "fixed_loop" /\ pc' = "fixed_loop")
          => start' > start]_vars

\* C3: whatever overlap the caller passes to the fixed, recursive or token
\* strategy, a window loop only ever iterates with overlap < chunk_size.
C3_LoopsRunClamped ==
    (pc \in {"fixed_loop", "by_size_loop", "token_loop"} /\ iters > 0)
        => overlap < chunk_size

\* C4: with 0 <= overlap < chunk_size, every chunk chunk_text_recursive
\* returns is at most chunk_size long.
C4_RecursiveWithinSize ==
    (call = "recursive" /\ pc = "done" /\ ValidSizes)
        => AllWithin(result, asked.chunk_size)

\* C5: with 0 <= overlap < chunk_size, every chunk the fixed chunk_text
\* collects, and so every chunk it returns, is at most chunk_size long.
C5_FixedWithinSize ==
    (FixedCall /\ ValidSizes)
        => /\ AllWithin(chunks, asked.chunk_size)
           /\ pc = "done" => AllWithin(result, asked.chunk_size)

\* A fixed call has returned at least two chunks, one from a window retracted
\* to a space and one from a window that was not.
C5_Witness ==
    /\ call = "fixed" /\ pc = "done" /\ ValidSizes
    /\ Len(result) >= 2
    /\ \E st \in visited : FixedIter(text, chunk_size, overlap, st).retracted
    /\ \E st \in visited : ~FixedIter(text, chunk_size, overlap, st).retracted

\* C6: for the methods fixed and recursive, every text prepare_chunks_for_db
\* has emitted, and so every text it returns, is non-empty after trimming.
C6_PreparedTextsNotBlank ==
    (call = "prepare" /\ method \in {"fixed", "recursive"})
        => /\ NoneBlank(all_texts)
           /\ pc = "done" => NoneBlank(result[1])

\* Entries of result whose metadata names document d.
EntriesOf(metas, d) == {i \in 1..Len(metas) : metas[i].source = d}

\* A batch has been prepared in which a chunker returned a blank chunk that
\* was left out: a document has fewer entries than its chunker returned.
C6_Witness ==
    /\ call = "prepare" /\ pc = "done" /\ method = "fixed"
    /\ Len(result[1]) >= 2
    /\ \E i \in 1..Len(result[2]) :
          result[2][i].total_chunks
             > Cardinality(EntriesOf(result[2], result[2][i].source))

\* C7: with valid sizes, neither the fixed chunk_text nor
\* chunk_text_recursive returns a chunk that is empty or whitespace-only.
C7_ChunkersReturnNoBlank ==
    (call \in {"fixed", "recursive"} /\ pc = "done" /\ ValidSizes)
        => NoneBlank(result)

\* C8: in the output of prepare_chunks_for_db a document with k entries has
\* them carry chunk_index 0, 1, ..., k-1 in order and total_chunks = k.
C8_IndexCountsEntries ==
    (call = "prepare" /\ pc = "done")
        => \A i \in 1..Len(result[2]) :
              LET mine == EntriesOf(result[2], result[2][i].source)
              IN  /\ result[2][i].total_chunks = Cardinality(mine)
                  /\ result[2][i].chunk_index
                        = Cardinality({j \in mine : j < i})

\* C9: the three sequences grow together, the ids are doc_0, doc_1, ... in
\* output order with the counter standing at their number, and the entries
\* follow document order, then chunk order within a document.
C9_IdsSequential ==
    call = "prepare" =>
        /\ Len(all_texts) = Len(all_ids)
        /\ Len(all_metadatas) = Len(all_ids)
        /\ chunk_id = Len(all_ids)
        /\ \A i \in 1..Len(all_ids) : all_ids[i] = DocId(i - 1)
        /\ \A i, j \in 1..Len(all_ids) : i # j => all_ids[i] # all_ids[j]
        /\ \A i, j \in 1..Len(all_metadatas) :
              i < j =>
                 \/ all_metadatas[i].source < all_metadatas[j].source
                 \/ /\ all_metadatas[i].source = all_metadatas[j].source
                    /\ all_metadatas[i].chunk_index < all_metadatas[j].chunk_index
        /\ pc = "done" => result = <<all_texts, all_metadatas, all_ids>>

\* A batch of two documents has been prepared, both with entries, the first
\* one with a blank chunk left out before the second one's ids.
C9_Witness ==
    /\ call = "prepare" /\ pc = "done"
    /\ Len(documents) = 2
    /\ EntriesOf(result[2], 2) # {}
    /\ \E i \in EntriesOf(result[2], 1) :
          result[2][i].total_chunks > Cardinality(EntriesOf(result[2], 1))

\* C10: when the token module cannot be imported or the tokenizer cannot be
\* loaded, chunk_text with method token returns what chunk_text_recursive
\* returns on the same text, chunk_size and overlap.
C10_TokenFallbackIsRecursive ==
    (call = "dispatch" /\ method = "token" /\ capability # "ready"
        /\ pc = "done")
        => LET out == ChunkTextRecursive(text, asked.chunk_size, asked.overlap)
           IN  out.status = "returns" /\ result = out.chunks

\* The dispatcher has returned several chunks for method token although the
\* tokenizer failed to load.
C10_Witness ==
    /\ call = "dispatch" /\ method = "token" /\ capability = "load_fails"
    /\ pc = "done"
    /\ Len(result) >= 2

\* The token strategy is running: called directly or through chunk_text.
TokenStrategy == call = "token" \/ (call = "dispatch" /\ method = "token")

\* C11: when tokenizer.encode fails inside the token strategy, what the call
\* returns is what chunk_text_recursive returns on the same text with the
\* caller's size and overlap.
C11_EncodeFailureIsRecursive ==
    [][(TokenStrategy /\ pc = "fixed_loop" /\ pc' = "done")
          => LET out == ChunkTextRecursive(text, asked.chunk_size, asked.overlap)
             IN  out.status = "returns" /\ result' = out.chunks]_vars

\* prepare_chunks_for_db with every document chunked by chunk_text_recursive.
RECURSIVE PreparedRecursively(_, _, _, _, _)
PreparedRecursively(docs, i, m, size, ov) ==
    IF i = 0
    THEN [texts |-> <<>>, metadatas |-> <<>>, ids |-> <<>>, chunk_id |-> 0]
    ELSE EmitChunks(ChunkTextRecursive(docs[i].content, size, ov).chunks, 1,
                    docs[i].filename, m,
                    PreparedRecursively(docs, i - 1, m, size, ov))

\* C12: for the semantic method, an embedder that is missing, that cannot be
\* constructed or that fails while embedding never makes
\* prepare_chunks_for_db raise; with the embedder missing or not
\* constructible, what it returns is the recursive chunker's output for
\* every document.
C12_EmbedderFailureFallsBack ==
    (call = "prepare" /\ method = "semantic" /\ capability # "ready")
        => /\ pc # "raised"
           /\ (pc = "done" /\ capability # "encode_fails")
                 => LET r == PreparedRecursively(documents, Len(documents),
                                                 method, chunk_size, overlap)
                    IN  result = <<r.texts, r.metadatas, r.ids>>

\* The method names chunk_text knows.
KnownMethods == {"fixed", "recursive", "token", "semantic", "langchain"}

\* C13: prepare_chunks_for_db with an unknown method never returns a result,
\* whatever the batch, and has chunked no document when it raises.
C13_UnknownMethodIsFatal ==
    (call = "prepare" /\ method \notin KnownMethods)
        => /\ pc # "done"
           /\ doc_i = 0
           /\ all_texts = <<>>

\* C14: chunk_text called with a chunk_size that is not positive or with a
\* negative overlap, for the methods fixed, recursive and token, neither
\* returns chunks nor runs a window loop.
C14_BadSizesRejected ==
    (call = "dispatch" /\ method \in {"fixed", "recursive", "token"}
        /\ (asked.chunk_size <= 0 \/ asked.overlap < 0))
        => /\ pc # "done"
           /\ iters = 0
           /\ chunks = <<>>

\* C15: a non-blank text no longer than chunk_size, with a valid overlap,
\* comes back as exactly one chunk, the trimmed text, from the fixed, the
\* recursive and the semantic strategy and from the token strategy's
\* fallbacks.
C15_ShortInputIsOneChunk ==
    (pc = "done" /\ call \in {"fixed", "recursive", "semantic", "dispatch"}
        /\ ~(method = "token" /\ capability = "ready")
        /\ ValidSizes /\ NotBlank(text) /\ Len(text) <= asked.chunk_size)
        => result = <<Strip(text)>>

\* C16: for the methods fixed and recursive, a document that is empty or
\* whitespace-only has no entry in the output, is chunked without an error
\* and leaves the id counter and the ids as they were.
C16_BlankDocumentAddsNothing ==
    (call = "prepare" /\ method \in {"fixed", "recursive"})
        => /\ \A d \in 1..doc_i :
                 ~NotBlank(documents[d].content)
                    => EntriesOf(all_metadatas, d) = {}
           /\ (pc = "prepare_loop" /\ doc_i < Len(documents)
                  /\ ~NotBlank(documents[doc_i + 1].content))
                 => LET doc == documents[doc_i + 1]
                        out == ChunkTextOutcome(doc.content, method, capability,
                                   chunk_size, overlap, threshold, <<>>)
                        acc == EmitChunks(out.chunks, 1, doc.filename, method,
                                   [texts |-> all_texts,
                                    metadatas |-> all_metadatas,
                                    ids |-> all_ids, chunk_id |-> chunk_id])
                    IN  /\ out.status = "returns"
                        /\ acc.chunk_id = chunk_id
                        /\ acc.ids = all_ids
                        /\ acc.texts = all_texts
           /\ pc = "raised" => NotBlank(documents[doc_i + 1].content)

\* A batch has been prepared whose first document is whitespace longer than
\* chunk_size and whose second document got the first id.
C16_Witness ==
    /\ call = "prepare" /\ pc = "done" /\ method \in {"fixed", "recursive"}
    /\ Len(documents) = 2
    /\ ~NotBlank(documents[1].content)
    /\ Len(documents[1].content) > chunk_size
    /\ Len(result[3]) >= 1
    /\ result[3][1] = DocId(0)
    /\ result[2][1].source = 2

\* The characters of s that are not whitespace.
NonSpace(c) == ~IsSpace(c)
Letters(s) == SelectSeq(s, NonSpace)

\* The positions in target that re-assembling the first i chunks can stand
\* at: a chunk drops a prefix that repeats the tail of the chunk before it,
\* and what is left continues the target, whitespace aside.
RECURSIVE ReachAfter(_, _, _)
ReachAfter(cs, i, target) ==
    IF i = 0 THEN {0}
    ELSE LET c == Letters(cs[i])
             prev == IF i = 1 THEN <<>> ELSE Letters(cs[i - 1])
             cuts == {k \in 0..Min(Len(c), Len(prev)) :
                         SubSeq(c, 1, k) = SubSeq(prev, Len(prev) - k + 1, Len(prev))}
         IN  UNION {{p + Len(c) - k : k \in {j \in cuts :
                        /\ p + Len(c) - j <= Len(target)
                        /\ SubSeq(target, p + 1, p + Len(c) - j)
                              = SubSeq(c, j + 1, Len(c))}} :
                    p \in ReachAfter(cs, i - 1, target)}

Reassembles(cs, t) == Len(Letters(t)) \in ReachAfter(cs, Len(cs), Letters(t))

\* C17: with 0 <= overlap < chunk_size, the chunks the fixed chunk_text and
\* chunk_text_recursive return, each without the part that repeats the tail
\* of the chunk before it, concatenate to the source, whitespace aside.
C17_ChunksReassemble ==
    (call \in {"fixed", "recursive"} /\ pc = "done" /\ ValidSizes)
        => Reassembles(result, text)

\* The separator lists _split_text_recursive is called with.
SeparatorLists == {SubSeq(Separators, k, Len(Separators)) : k \in 1..Len(Separators)}

\* C18: with chunk_size >= 1 and 0 <= overlap < chunk_size,
\* chunk_text_recursive returns; every recursive call gets a separator list
\* strictly shorter than its caller's, and the loop of _chunk_by_size moves
\* its start forward on every iteration.
C18_RecursiveTerminates ==
    /\ (pc = "recursive_call" /\ ValidSizes)
          => ChunkTextRecursive(text, chunk_size, overlap).status = "returns"
    /\ (call = "recursive" /\ ValidSizes)
          => \A seps \in SeparatorLists : \A k \in 1..Len(seps) :
                seps[k] # <<>> => Len(SeparatorsAfter(seps, seps[k])) < Len(seps)
    /\ (call = "by_size" /\ pc = "by_size_loop" /\ ValidSizes /\ start < Len(text))
          => BySizeIter(text, chunk_size, overlap, start).next > start

\* chunk_text_recursive has returned from a text it had to take down the
\* separators to the character tier: a sentence longer than chunk_size.
C18_Witness ==
    /\ call = "recursive" /\ pc = "done" /\ ValidSizes
    /\ asked.overlap > 0
    /\ Contains(text, <<".", " ">>)
    /\ Len(Split(text, <<".", " ">>)[1]) > asked.chunk_size
    /\ Len(result) >= 3

StrictlyIncreasing(s) == \A i \in 1..(Len(s) - 1) : s[i] < s[i + 1]

\* C19: once chunk_text_semantic has its breakpoints, there are at least two
\* sentences, the list starts with 0, ends with the number of sentences and
\* is strictly increasing, and it gives len(breakpoints) - 1 candidate
\* chunks, none empty, that together hold every sentence once.
C19_BreakpointsIncrease ==
    breakpoints # <<>>
        => /\ Len(sentences) >= 2
           /\ Len(breakpoints) >= 2
           /\ breakpoints[1] = 0
           /\ breakpoints[Len(breakpoints)] = Len(sentences)
           /\ StrictlyIncreasing(breakpoints)
           /\ Len(Candidates(sentences, breakpoints)) = Len(breakpoints) - 1
           /\ \A i \in 1..Len(Candidates(sentences, breakpoints)) :
                 Candidates(sentences, breakpoints)[i] # <<>>
           /\ Join(Candidates(sentences, breakpoints)) = sentences

\* chunk_text_semantic has returned from three sentences with one breakpoint
\* between them.
C19_Witness ==
    /\ call = "semantic" /\ pc = "done"
    /\ Len(sentences) = 3
    /\ Len(breakpoints) = 3

\* C20: in the fixed chunk_text with 0 <= overlap < chunk_size, every
\* iteration moves the window start by exactly chunk_size - overlap.
C20_FixedStride ==
    [][(FixedCall /\ ValidSizes /\ pc = "fixed_loop" /\ pc' = "fixed_loop")
          => start' = start + (chunk_size - overlap)]_vars

\* C21: in every call of _split_text_recursive that chunk_text_recursive
\* leads to with overlap >= 0, whenever a piece would overflow a non-empty
\* buffer, the next buffer is the last min(overlap, len(buffer)) characters
\* of the flushed buffer, nothing when overlap is 0, followed by the piece
\* that did not fit.
C21_OverflowCarriesTail ==
    (pc = "recursive_call" /\ asked.overlap >= 0)
        => \A c \in CallsOf(text, asked.chunk_size, asked.overlap, Separators) :
              \A f \in FlushesOfCall(c.text, asked.chunk_size, asked.overlap,
                                     c.separators) :
                 LET carry == Min(asked.overlap, Len(f.buffer))
                 IN  /\ f.buffer # <<>>
                     /\ f.next = SubSeq(f.buffer, Len(f.buffer) - carry + 1,
                                        Len(f.buffer)) \o f.piece

\* chunk_text_recursive has returned from a text in which one buffer was
\* flushed with more characters than the overlap and one with fewer.
C21_Witness ==
    /\ call = "recursive" /\ pc = "done" /\ ValidSizes
    /\ asked.overlap > 0
    /\ \E f \in FlushesOfCall(text, asked.chunk_size, asked.overlap, Separators) :
          Len(f.buffer) > asked.overlap
    /\ \E f \in FlushesOfCall(text, asked.chunk_size, asked.overlap, Separators) :
          Len(f.buffer) < asked.overlap

\* Position in seps of the earliest separator that occurs in t; the empty
\* separator occurs in every text.
EarliestOccurring(t, seps) ==
    LET occurs == {k \in 1..Len(seps) : seps[k] = <<>> \/ Contains(t, seps[k])}
    IN  CHOOSE k \in occurs : \A j \in occurs : k <= j

\* cs holds the chunks part one after the other, right after the chunk
\* before when there is one.
HoldsAfter(cs, before, part) ==
    \E p \in 0..Len(cs) :
       /\ p + Len(part) <= Len(cs)
       /\ SubSeq(cs, p + 1, p + Len(part)) = part
       /\ before # <<>> => (p >= 1 /\ cs[p] = before[1])

\* C22: every call of _split_text_recursive that chunk_text_recursive leads
\* to on a text longer than chunk_size splits at the earliest separator of
\* its list that occurs in the text; a piece longer than chunk_size is split
\* with the separators strictly later than the one that produced it, and its
\* chunks come right after the chunk of the buffer that was pending.
C22_EarliestSeparatorWins ==
    pc = "recursive_call"
        => \A c \in CallsOf(text, asked.chunk_size, asked.overlap, Separators) :
              (Len(c.text) > asked.chunk_size /\ Strip(c.text) # <<>>)
              => LET size == asked.chunk_size
                     ov == asked.overlap
                     seps == c.separators
                     k == EarliestOccurring(c.text, seps)
                     out == SplitTextRecursive(c.text, size, ov, seps)
                 IN  IF seps[k] = <<>> THEN out = ChunkBySize(c.text, size, ov)
                     ELSE
                     /\ out = PackPieces(Split(c.text, seps[k]), 1, seps[k], seps,
                                  size, ov, [status |-> "returns", chunks |-> <<>>,
                                             cur |-> <<>>, len |-> 0])
                     /\ \A e \in OversizedPieces(Split(c.text, seps[k]), 1,
                                      seps[k], seps, size, ov, <<>>) :
                           /\ e.with = SubSeq(seps, k + 1, Len(seps))
                           /\ \A j \in 1..Len(e.with) : e.with[j] # seps[k]
                           /\ [text |-> e.piece, separators |-> e.with]
                                 \in CallsOf(text, size, ov, Separators)
                           /\ LET sub == SplitTextRecursive(e.piece, size, ov, e.with)
                              IN  (out.status = "returns" /\ sub.status = "returns")
                                     => HoldsAfter(out.chunks,
                                           IF e.pending = <<>> THEN <<>>
                                           ELSE <<Strip(Join(e.pending))>>,
                                           sub.chunks)

\* chunk_text_recursive has returned from a text that holds a newline after
\* a space, so that the later separator comes first in the text, and in which
\* a line longer than chunk_size followed a pending buffer.
C22_Witness ==
    /\ call = "recursive" /\ pc = "done" /\ ValidSizes
    /\ Contains(text, <<"\n">>) /\ Contains(text, <<" ">>)
    /\ Find(text, <<" ">>) < Find(text, <<"\n">>)
    /\ \E e \in OversizedOfCall(text, asked.chunk_size, asked.overlap, Separators) :
          e.pending # <<>> /\ Contains(e.piece, <<" ">>)

\* C23: for every sentence list and every max_size >= 1, a chunk returned by
\* _split_large_chunk is the sentences of one buffer joined by single spaces
\* and is at most max_size long, unless it is one sentence that is itself
\* longer than max_size.
C23_SplitLargeWithinSize ==
    (call = "split_large" /\ pc = "done")
        => LET groups == SplitLargeGroups(sentences, chunk_size)
           IN  /\ Len(result) = Len(groups)
               /\ \A i \in 1..Len(result) :
                     /\ result[i] = JoinSpace(groups[i])
                     /\ \/ Len(result[i]) <= chunk_size
                        \/ /\ Len(groups[i]) = 1
                           /\ Len(groups[i][1]) > chunk_size

\* _split_large_chunk has returned a chunk of two sentences that is exactly
\* max_size long, and a sentence longer than max_size as a chunk of its own.
C23_Witness ==
    /\ call = "split_large" /\ pc = "done"
    /\ \E i \in 1..Len(result) :
          /\ Len(SplitLargeGroups(sentences, chunk_size)[i]) = 2
          /\ Len(result[i]) = chunk_size
    /\ \E i \in 1..Len(result) : Len(result[i]) > chunk_size

\* Offsets in the window w of its spaces.
SpaceOffsets(w) == {k \in 0..(Len(w) - 1) : w[k + 1] = " "}

\* The window holds a space beyond chunk_size * MIN_CHUNK_RATIO.
SpaceBeyondRatio(w, size) ==
    \E k \in SpaceOffsets(w) : MIN_CHUNK_RATIO_DEN * k > MIN_CHUNK_RATIO_NUM * size

\* The character at index i of t exists and is not whitespace.
InsideWord(t, i) == i >= 0 /\ i < Len(t) /\ ~IsSpace(t[i + 1])

TokenWindow(st) == PySlice(tokens, st, Min(st + chunk_size, Len(tokens)))

\* C25: in chunk_text_by_tokens, a window that fails to decode adds nothing
\* and takes nothing away: the chunks of the earlier windows stay, the loop
\* goes on to the next window as after any other, a later window that
\* decodes is appended, the call does not raise, and what is returned is the
\* chunks collected.
C25_DecodeFailureSkipsWindow ==
    [][(call = "token" /\ pc = "token_loop")
          => /\ pc' \in {"token_loop", "done"}
             /\ exc' = exc
             /\ pc' = "done" => result' = chunks
             /\ (pc' = "token_loop" /\ DecodeFails(TokenWindow(start)))
                   => /\ chunks' = chunks
                      /\ start' = Min(start + chunk_size, Len(tokens)) - overlap
             /\ (pc' = "token_loop" /\ ~DecodeFails(TokenWindow(start))
                    /\ Decode(TokenWindow(start)) # <<>>)
                   => chunks' = Append(chunks, Decode(TokenWindow(start)))
      ]_vars

\* chunk_text_by_tokens has returned the chunks of the first and the third
\* window, the second one having failed to decode.
C25_Witness ==
    /\ call = "token" /\ pc = "done"
    /\ Len(tokens) = 3 /\ chunk_size = 1 /\ overlap = 0
    /\ DecodeFails(TokenWindow(1))
    /\ visited = {0, 1, 2}
    /\ result = <<Decode(TokenWindow(0)), Decode(TokenWindow(2))>>
    /\ Len(result[1]) = 1 /\ Len(result[2]) = 1

\* C26: for the token method reached through the dispatcher with chunk_size
\* >= 0 and overlap >= 0 in characters, chunk_text_by_tokens works with the
\* token budget max(chunk_size div 4, 50) and with the token overlap
\* max(overlap div 4, 10), or the budget div 4 when that overlap reaches the
\* budget: the budget is at least 50, and 10 <= token overlap < budget.
C26_TokenBudget ==
    (call = "dispatch" /\ method = "token" /\ pc = "token_encode"
        /\ asked.chunk_size >= 0 /\ asked.overlap >= 0)
        => LET budget == Max(asked.chunk_size \div 4, 50)
               wanted == Max(asked.overlap \div 4, 10)
           IN  /\ chunk_size = budget
               /\ overlap = IF wanted >= budget THEN budget \div 4 ELSE wanted
               /\ chunk_size >= 50
               /\ 10 <= overlap /\ overlap < chunk_size

\* The dispatcher has turned a chunk_size and an overlap past both floors
\* into a budget above 50 tokens and an overlap that reached it, which
\* chunk_text_by_tokens has replaced by a quarter of the budget.
C26_Witness ==
    /\ call = "dispatch" /\ method = "token" /\ pc = "token_encode"
    /\ chunk_size > MinChunkTokens
    /\ asked.overlap \div CharsPerToken >= chunk_size
    /\ overlap = chunk_size \div ClampDivisor

\* C27: when the LangChain splitter library cannot be imported,
\* chunk_text(text, "langchain", chunk_size, overlap) returns the list
\* chunk_text_recursive returns on the same text, chunk_size and overlap.
C27_LangchainFallbackIsRecursive ==
    (call = "dispatch" /\ method = "langchain" /\ capability = "no_module"
        /\ pc = "done")
        => LET out == ChunkTextRecursive(text, asked.chunk_size, asked.overlap)
           IN  out.status = "returns" /\ result = out.chunks

\* The outcome of the call of get_tokenizer just made.
LastCall == history'[Len(history')]

\* C28: over the calls of get_tokenizer of one process, once a load has
\* succeeded every call returns that handle and nothing is loaded again, so
\* that at most one load succeeds; a failed load leaves the handle unset and
\* the call as ImportError, and the next call attempts the load again.
C28_TokenizerSingleton ==
    [][(call = "tokenizer" /\ history' # history)
          => /\ Len(history') = Len(history) + 1
             /\ loads' <= 1
             /\ tokenizer # 0
                   => /\ ~LastCall.raised
                      /\ LastCall.handle = tokenizer
                      /\ UNCHANGED <<tokenizer, loads, attempts>>
             /\ tokenizer = 0
                   => /\ attempts' = attempts + 1
                      /\ LastCall.raised
                            => (tokenizer' = 0 /\ loads' = loads)
                      /\ ~LastCall.raised
                            => /\ tokenizer' # 0
                               /\ LastCall.handle = tokenizer'
                               /\ loads' = loads + 1
      ]_vars

\* get_tokenizer has failed to load, then loaded on the next call, then
\* returned the same handle to another caller without loading.
C28_Witness ==
    /\ call = "tokenizer"
    /\ Len(history) >= 3
    /\ history[1].raised
    /\ ~history[2].raised
    /\ ~history[3].raised
    /\ history[3].handle = history[2].handle
    /\ history[3].caller # history[2].caller
    /\ attempts = 2 /\ loads = 1

\* The chunks cs are the sentences sents cut into consecutive groups, each
\* group joined by single spaces.
RECURSIVE PartitionsSentences(_, _)
PartitionsSentences(cs, sents) ==
    IF cs = <<>> THEN sents = <<>>
    ELSE \E k \in 1..Len(sents) :
            /\ cs[1] = JoinSpace(SubSeq(sents, 1, k))
            /\ PartitionsSentences(Tail(cs), SubSeq(sents, k + 1, Len(sents)))

\* C29: for a text of at least two sentences, the chunks chunk_text_semantic
\* returns are the sentences in their order, each in exactly one chunk, none
\* dropped and none repeated, whether a candidate chunk was subdivided or not.
C29_ChunksPartitionSentences ==
    (call = "semantic" /\ pc = "done" /\ Len(sentences) >= 2)
        => PartitionsSentences(result, sentences)

\* chunk_text_semantic has returned from three sentences with a breakpoint
\* after the first: the first candidate fitted max_chunk_size, the second
\* was subdivided.
C29_Witness ==
    /\ call = "semantic" /\ pc = "done"
    /\ Len(sentences) = 3
    /\ breakpoints = <<0, 1, 3>>
    /\ Len(sentences[1]) <= chunk_size
    /\ Len(JoinSpace(SubSeq(sentences, 2, 3))) > chunk_size
    /\ Len(result) = 3

\* The items of one kind that the calls of collection.add passed, in order.
RECURSIVE AddedDocuments(_)
AddedDocuments(calls) ==
    IF calls = <<>> THEN <<>>
    ELSE Head(calls).documents \o AddedDocuments(Tail(calls))

RECURSIVE AddedIds(_)
AddedIds(calls) ==
    IF calls = <<>> THEN <<>> ELSE Head(calls).ids \o AddedIds(Tail(calls))

\* C30: insert_documents with n items and batch_size >= 1 calls
\* collection.add ceil(n / batch_size) times; call k, from 0, passes the
\* items k * batch_size up to min((k + 1) * batch_size, n) of the texts, the
\* metadata and the ids alike, so that every item is added once, in order,
\* with its own id and metadata, and no call is empty or larger than
\* batch_size.
C30_InsertBatches ==
    (call = "insert" /\ pc = "done")
        => LET n == Len(all_texts)
           IN  /\ Len(added) * batch_size >= n
               /\ Len(added) > 0 => (Len(added) - 1) * batch_size < n
               /\ \A k \in 0..(Len(added) - 1) :
                     LET lo == k * batch_size
                         hi == IF (k + 1) * batch_size < n
                               THEN (k + 1) * batch_size ELSE n
                     IN  /\ added[k + 1].documents = SubSeq(all_texts, lo + 1, hi)
                         /\ added[k + 1].metadatas = SubSeq(all_metadatas, lo + 1, hi)
                         /\ added[k + 1].ids = SubSeq(all_ids, lo + 1, hi)
                         /\ Len(added[k + 1].documents) >= 1
                         /\ Len(added[k + 1].documents) <= batch_size
               /\ AddedDocuments(added) = all_texts
               /\ AddedIds(added) = all_ids

\* insert_documents has returned after a full batch and a shorter last one.
C30_Witness ==
    /\ call = "insert" /\ pc = "done"
    /\ batch_size >= 2
    /\ Len(added) = 2
    /\ Len(added[1].documents) = batch_size
    /\ Len(added[2].documents) < batch_size

=============================================================================
